---- MODULE Spec2Model ----
(***************************************************************************)
(* Session / link reconciliation of the web tier (web/views.py): the       *)
(* link, send_song and logout views, the bot transport _api_post and the   *)
(* browser session they read and write.                                    *)
(*                                                                         *)
(* A Python string is a sequence of one-character strings; Python's None   *)
(* is the value None below.  A dict (the session) is a function whose      *)
(* domain is the set of keys present.                                      *)
(***************************************************************************)
EXTENDS Integers, Sequences, FiniteSets, TLC

\* one browser session served one request at a time
VARIABLES session, pc, req, bot, calls, resp, pre, prevCleared, lastWrite, stale,
          clearedSince, db

seqVars == <<session, pc, req, bot, calls, resp, pre, prevCleared, lastWrite, stale,
             clearedSince, db>>

\* the stored session and two requests of that session that may overlap
VARIABLES store, store0, proc

concVars == <<store, store0, proc>>

\* one application of the code normalizer
VARIABLES nin, nout, npc

normVars == <<nin, nout, npc>>

vars == <<seqVars, concVars, normVars>>

\* ------------------------------------------------------------------ bounds
\* longest code string a request carries
MaxLen == 2

\* longest string handed to the code normalizer
MaxNormLen == 3

\* longest limit parameter of a charts or favorites request
MaxLimitLen == 3

\* ------------------------------------------------------------- Python data
None == <<"None">>

\* a decimal digit, a whitespace character, a letter
Chars == {"1", " ", "a"}

Digits == {"1"}

Whitespace == {" "}

\* U+00B2 SUPERSCRIPT TWO, written "^2": a character str.isdigit() accepts
\* and int() rejects, as it is a digit but not a decimal digit
SuperscriptTwo == "^2"

\* the characters str.isdigit() accepts
PyDigits == Digits \cup {SuperscriptTwo}

RECURSIVE StringsUpTo(_)
StringsUpTo(n) ==
    IF n = 0 THEN {<<>>}
    ELSE LET shorter == StringsUpTo(n - 1)
         IN  shorter \cup {Append(s, c) : s \in {t \in shorter : Len(t) = n - 1}, c \in Chars}

Strings == StringsUpTo(MaxLen)

\* the strings over chars of length n at most
RECURSIVE StringsOver(_, _)
StringsOver(chars, n) ==
    IF n = 0 THEN {<<>>}
    ELSE LET shorter == StringsOver(chars, n - 1)
         IN  shorter \cup {Append(s, c) : s \in {t \in shorter : Len(t) = n - 1}, c \in chars}

\* a request parameter: absent (None) or a string
OptStrings == Strings \cup {None}

\* Python truthiness of None / str
Truthy(v) == v # None /\ v # <<>>

\* a or b
PyOr(a, b) == IF Truthy(a) THEN a ELSE b

\* str.lstrip()
RECURSIVE LStrip(_)
LStrip(s) == IF s # <<>> /\ Head(s) \in Whitespace THEN LStrip(Tail(s)) ELSE s

\* str.rstrip()
RECURSIVE RStrip(_)
RStrip(s) ==
    IF s # <<>> /\ s[Len(s)] \in Whitespace THEN RStrip(SubSeq(s, 1, Len(s) - 1)) ELSE s

\* str.strip()
Strip(s) == RStrip(LStrip(s))

\* str.isdigit(): non-empty and every character a digit
IsDigit(s) == s # <<>> /\ \A i \in 1..Len(s) : s[i] \in PyDigits

\* str.lower() on the letters the period names use
LowerChar(c) == IF c = "W" THEN "w" ELSE IF c = "A" THEN "a" ELSE c

\* str.lower()
Lower(s) == [i \in 1..Len(s) |-> LowerChar(s[i])]

\* the value of each decimal digit
DecimalValue == [c \in {"0", "1", "2", "5"} |-> CASE c = "0" -> 0 [] c = "1" -> 1
                                                   [] c = "2" -> 2 [] c = "5" -> 5]

\* the sign an int literal starts with
Signs == {"-", "+"}

\* the digits of an int literal: the trimmed text without its sign
IntBody(s) ==
    LET t == Strip(s)
    IN  IF t # <<>> /\ Head(t) \in Signs THEN Tail(t) ELSE t

\* int(s) returns: s is an optional sign and decimal digits; else ValueError
IntParses(s) ==
    IntBody(s) # <<>> /\ \A i \in 1..Len(IntBody(s)) : IntBody(s)[i] \in DOMAIN DecimalValue

RECURSIVE DecValue(_)
DecValue(ds) ==
    IF ds = <<>> THEN 0
    ELSE 10 * DecValue(SubSeq(ds, 1, Len(ds) - 1)) + DecimalValue[ds[Len(ds)]]

\* int(s), for an s that parses
IntValue(s) ==
    IF Head(Strip(s)) = "-" THEN 0 - DecValue(IntBody(s)) ELSE DecValue(IntBody(s))

\* max(lo, min(hi, v))
Clamp(v, lo, hi) ==
    LET m == IF v < hi THEN v ELSE hi
    IN  IF m > lo THEN m ELSE lo

\* ---------------------------------------------------------------- session
EmptySession == [k \in {} |-> TRUE]

\* request.session.get(key)
SessionGet(sess, key) == IF key \in DOMAIN sess THEN sess[key] ELSE None

\* request.session.pop(key, None)
SessionPop(sess, key) == [k \in (DOMAIN sess) \ {key} |-> sess[k]]

\* request.session[key] = value
SessionSet(sess, key, value) ==
    [k \in (DOMAIN sess) \cup {key} |-> IF k = key THEN value ELSE sess[k]]

\* a clear that forgets the linked flag
ClearLinked_KeepsFlag(sess) == SessionPop(sess, "linked_code")

\* a clear that forgets the code
ClearLinked_KeepsCode(sess) == SessionPop(sess, "linked")

\* the two pops of the logout view
ClearLinked(sess) == SessionPop(SessionPop(sess, "linked"), "linked_code")

\* a link that writes the code only, as send_song does
SetLinked_NoFlag(sess, code) == SessionSet(sess, "linked_code", code)

\* the two writes of the link view
SetLinked(sess, code) == SessionSet(SessionSet(sess, "linked", TRUE), "linked_code", code)

\* ------------------------------------------------------------ bot transport
\* statuses the bot may answer with
BotStatuses == {200, 400, 401, 500, 503}

UnlinkedErrors == {"code not found", "user not found", "invalid code", "user_id or code required"}

\* error strings a bot body may carry
BotErrors == UnlinkedErrors \cup {"link expired"}

\* a response body parsed by r.json(): a JSON object with or without an
\* "error" member, or a JSON value that is not an object (a list, a string)
ObjNoError == [object |-> TRUE, has_error |-> FALSE, error |-> ""]

ObjError(e) == [object |-> TRUE, has_error |-> TRUE, error |-> e]

NonObject == [object |-> FALSE, has_error |-> FALSE, error |-> ""]

BotBodies == {ObjNoError, NonObject} \cup {ObjError(e) : e \in BotErrors}

\* requests.post raised: _api_post returns 500 and the exception text
TransportError == "connection refused"

\* every (status_code, data) pair _api_post can return
ApiPostResults ==
    {[status |-> s, data |-> d, raised |-> FALSE] : s \in BotStatuses, d \in BotBodies}
    \cup {[status |-> 500, data |-> ObjError(TransportError), raised |-> TRUE]}

\* no call was made in this request
NoCall == [status |-> 0, data |-> ObjNoError, raised |-> FALSE]

\* data.get("error") on a dict; None when the key is absent
DataGetError(data) == IF data.has_error THEN data.error ELSE None

\* data.get("error", default) on a dict
DataGetErrorOr(data, default) == IF data.has_error THEN data.error ELSE default

\* ------------------------------------------------------------- responses
Response(body, status) == [status |-> status, body |-> body]

\* data.get on a value that is not a dict: AttributeError leaves the view
Raised == Response([exception |-> "AttributeError"], 500)

NoResponse == Response([none |-> TRUE], 0)

\* f"{what} failed ({status_code})"
FailedMessage(what, status) == what \o " failed (" \o ToString(status) \o ")"

\* ---------------------------------------------------------------- requests
NoRequest == [op |-> "none", method |-> "", code |-> None, qcode |-> None, query |-> None]

\* POST /api/link with request.data = {code}
LinkRequests ==
    {[op |-> "link", method |-> "POST", code |-> c, qcode |-> None, query |-> None] :
        c \in OptStrings}

\* the query texts a send request carries: absent, blank, a text with padding
Queries == {None, <<" ">>, <<"a", " ">>}

\* POST /api/send with request.data = {query, code}
SendRequests ==
    {[op |-> "send", method |-> "POST", code |-> c, qcode |-> None, query |-> q] :
        c \in OptStrings, q \in Queries}

\* GET /api/logout?code=..  or  POST /api/logout?code=.. with request.data = {code}
LogoutRequests ==
    {[op |-> "logout", method |-> "GET", code |-> None, qcode |-> qc, query |-> None] :
        qc \in OptStrings}
    \cup
    {[op |-> "logout", method |-> "POST", code |-> c, qcode |-> qc, query |-> None] :
        c \in OptStrings, qc \in OptStrings}

\* what a view hands back: the session it leaves, the bot calls it made,
\* the bot's answer it saw and its response
Outcome(sess, made, out, response) ==
    [session |-> sess, calls |-> made, bot |-> out, resp |-> response]

\* ------------------------------------------------------------------- link
\* a link that does not trim the code
LinkCode_NoStrip(r) == PyOr(r.code, <<>>)

\* link, lines 79-80
LinkCode(r) == Strip(PyOr(r.code, <<>>))

\* a link that stores the code before it looks at the bot's status
LinkAfterCall_WritesAlways(sess, code, out) ==
    LET made == <<[path |-> "/api/link_by_code", code |-> code, query |-> None]>>
        kept == SetLinked(sess, code)
    IN  IF out.status = 200
        THEN Outcome(kept, made, out, Response([status |-> "linked", code |-> code], 200))
        ELSE IF ~out.data.object
        THEN Outcome(kept, made, out, Raised)
        ELSE Outcome(kept, made, out,
                     Response([error |-> DataGetErrorOr(out.data, FailedMessage("link", out.status))], 400))

\* link, lines 83-88: after the bot answered
LinkAfterCall(sess, code, out) ==
    LET made == <<[path |-> "/api/link_by_code", code |-> code, query |-> None]>>
    IN  IF out.status = 200
        THEN Outcome(SetLinked(sess, code), made, out,
                     Response([status |-> "linked", code |-> code], 200))
        ELSE IF ~out.data.object
        THEN Outcome(sess, made, out, Raised)
        ELSE Outcome(sess, made, out,
                     Response([error |-> DataGetErrorOr(out.data, FailedMessage("link", out.status))], 400))

\* link
LinkView(sess, r, out) ==
    LET code == LinkCode(r)
    IN  IF ~Truthy(code)
        THEN Outcome(sess, <<>>, NoCall, Response([error |-> "code required"], 400))
        ELSE LinkAfterCall(sess, code, out)

\* ------------------------------------------------------------------- send
\* a send that does not trim the query
SendQuery_NoStrip(r) == PyOr(r.query, <<>>)

\* send_song, lines 100, 102
SendQuery(r) == Strip(PyOr(r.query, <<>>))

\* send_song, lines 101, 103
SendCode(sess, r) == Strip(PyOr(PyOr(r.code, SessionGet(sess, "linked_code")), <<>>))

\* a send that stores the code before it looks at the bot's status
SendAfterCall_WritesAlways(sess, code, query, out) ==
    LET made == <<[path |-> "/api/send_song_by_code", code |-> code, query |-> query]>>
        kept == SessionSet(sess, "linked_code", code)
    IN  IF out.status = 200
        THEN Outcome(kept, made, out, Response([status |-> "scheduled"], 200))
        ELSE IF ~out.data.object
        THEN Outcome(kept, made, out, Raised)
        ELSE Outcome(kept, made, out,
                     Response([error |-> DataGetErrorOr(out.data, FailedMessage("send", out.status))], 400))

\* a send that never stores the code it used
SendAfterCall_NoWrite(sess, code, query, out) ==
    LET made == <<[path |-> "/api/send_song_by_code", code |-> code, query |-> query]>>
    IN  IF out.status = 200
        THEN Outcome(sess, made, out, Response([status |-> "scheduled"], 200))
        ELSE IF ~out.data.object
        THEN Outcome(sess, made, out, Raised)
        ELSE Outcome(sess, made, out,
                     Response([error |-> DataGetErrorOr(out.data, FailedMessage("send", out.status))], 400))

\* send_song, lines 108-112: after the bot answered
SendAfterCall(sess, code, query, out) ==
    LET made == <<[path |-> "/api/send_song_by_code", code |-> code, query |-> query]>>
    IN  IF out.status = 200
        THEN Outcome(SessionSet(sess, "linked_code", code), made, out,
                     Response([status |-> "scheduled"], 200))
        ELSE IF ~out.data.object
        THEN Outcome(sess, made, out, Raised)
        ELSE Outcome(sess, made, out,
                     Response([error |-> DataGetErrorOr(out.data, FailedMessage("send", out.status))], 400))

\* send_song
SendView(sess, r, out) ==
    LET query == SendQuery(r)
        code  == SendCode(sess, r)
    IN  IF ~Truthy(query)
        THEN Outcome(sess, <<>>, NoCall, Response([error |-> "query required"], 400))
        ELSE IF ~Truthy(code)
        THEN Outcome(sess, <<>>, NoCall, Response([error |-> "no linked code (link first)"], 400))
        ELSE SendAfterCall(sess, code, query, out)

\* ----------------------------------------------------------------- logout
\* a logout that skips the isdigit test
LogoutCode_NoDigitCheck(sess, r) ==
    LET raw == IF r.method = "GET"
               THEN PyOr(PyOr(r.qcode, SessionGet(sess, "linked_code")), <<>>)
               ELSE PyOr(PyOr(PyOr(r.code, r.qcode), SessionGet(sess, "linked_code")), <<>>)
    IN  Strip(raw)

\* logout, lines 179-186: the code the request resolves to, "" when invalid
LogoutCode(sess, r) ==
    LET raw == IF r.method = "GET"
               THEN PyOr(PyOr(r.qcode, SessionGet(sess, "linked_code")), <<>>)
               ELSE PyOr(PyOr(PyOr(r.code, r.qcode), SessionGet(sess, "linked_code")), <<>>)
        code == Strip(raw)
    IN  IF Truthy(code) /\ ~IsDigit(code) THEN <<>> ELSE code

\* an already-unlinked test that only looks at 400 answers
IsUnlinkedError_Only400(out) ==
    out.status = 400 /\ DataGetError(out.data) \in UnlinkedErrors

\* logout, line 199: the bot's error is one of the already-unlinked errors
IsUnlinkedError(out) == DataGetError(out.data) \in UnlinkedErrors

\* a 401 branch that drops the session
LogoutUnauthorized_Clears(sess, made, out) ==
    Outcome(ClearLinked(sess), made, out,
            Response([error |-> "bot unauthorized (check API key)"], 502))

\* logout, lines 203-209: the bot answered 401
LogoutUnauthorized(sess, made, out) ==
    Outcome(sess, made, out, Response([error |-> "bot unauthorized (check API key)"], 502))

\* a 5xx branch that drops the session
LogoutServiceError_Clears(sess, made, out) ==
    Outcome(ClearLinked(sess), made, out,
            Response([error |-> "bot service error", detail |-> DataGetError(out.data)], 502))

\* logout, lines 210-211: the bot answered 5xx
LogoutServiceError(sess, made, out) ==
    Outcome(sess, made, out,
            Response([error |-> "bot service error", detail |-> DataGetError(out.data)], 502))

\* a fallback that calls the bot a second time before giving up
LogoutFallback_Retries(sess, made, out) ==
    Outcome(sess, made \o made, out,
            Response([error |-> DataGetErrorOr(out.data, FailedMessage("logout", out.status)),
                      detail |-> out.data], 400))

\* logout, lines 212-213: any other answer
LogoutFallback(sess, made, out) ==
    Outcome(sess, made, out,
            Response([error |-> DataGetErrorOr(out.data, FailedMessage("logout", out.status)),
                      detail |-> out.data], 400))

\* logout, lines 192-213: after the bot answered
LogoutAfterCall(sess, code, out) ==
    LET made == <<[path |-> "/api/logout", code |-> code, query |-> None]>>
    IN  IF out.status = 200
        THEN Outcome(ClearLinked(sess), made, out, Response([status |-> "logged_out"], 200))
        ELSE IF ~out.data.object
        THEN Outcome(sess, made, out, Raised)
        ELSE IF IsUnlinkedError(out)
        THEN Outcome(ClearLinked(sess), made, out, Response([status |-> "not_linked"], 200))
        ELSE IF out.status = 401
        THEN LogoutUnauthorized(sess, made, out)
        ELSE IF 500 <= out.status /\ out.status < 600
        THEN LogoutServiceError(sess, made, out)
        ELSE LogoutFallback(sess, made, out)

\* a logout that treats a missing code as an error
LogoutView_EmptyIsError(sess, r, out) ==
    LET code == LogoutCode(sess, r)
    IN  IF ~Truthy(code)
        THEN Outcome(sess, <<>>, NoCall, Response([error |-> "code required"], 400))
        ELSE LogoutAfterCall(sess, code, out)

\* logout
LogoutView(sess, r, out) ==
    LET code == LogoutCode(sess, r)
    IN  IF ~Truthy(code)
        THEN Outcome(ClearLinked(sess), <<>>, NoCall, Response([status |-> "not_linked"], 200))
        ELSE LogoutAfterCall(sess, code, out)

\* ------------------------------------------------------ read-only views
\* ---------------------------------------------------------------- actions
\* the request queried no table
NoQuery == "none"

\* what a read-only view hands back: it makes no bot call
ReadOutcome(sess, response, dbres) ==
    [session |-> sess, calls |-> <<>>, bot |-> NoCall, resp |-> response, db |-> dbres]

\* an ORM query raised outside any try block: the exception leaves the view
RaisedDb == Response([exception |-> "DatabaseError"], 500)

\* the user lookup by website_link_code: it raises, finds no user, finds one
\* whose rows are then read, or finds one whose rows cannot be read
UserLookups == {"lookup_error", "not_found", "found", "query_error"}

\* the characters of a limit parameter
LimitChars == {"0", "1", "-", "a"}

\* a limit parameter: absent or a string
LimitInputs == StringsOver(LimitChars, MaxLimitLen) \cup {None}

Week == <<"w", "e", "e", "k">>

Month == <<"m", "o", "n", "t", "h">>

Year == <<"y", "e", "a", "r">>

All == <<"a", "l", "l">>

\* a period parameter: absent, empty, blank, a known name (also in capitals
\* and padded), the star, an unknown name
PeriodInputs ==
    {None, <<>>, <<" ">>, Week, <<"W", "e", "e", "k", " ">>, Month, Year, All,
     <<"A", "L", "L">>, <<"*">>, <<"d", "a", "y">>}

\* GET /api/history?code=..
HistoryRequests ==
    {[op |-> "history", method |-> "GET", code |-> None, qcode |-> qc, query |-> None] :
        qc \in OptStrings}

\* GET /api/favorites?code=..&limit=..
FavoritesRequests ==
    {[op |-> "favorites", method |-> "GET", code |-> None, qcode |-> qc, query |-> None,
      limit |-> l] : qc \in OptStrings, l \in LimitInputs}

\* GET /api/charts?period=..&limit=..
ChartsRequests ==
    {[op |-> "charts", method |-> "GET", code |-> None, qcode |-> None, query |-> None,
      period |-> pd, limit |-> l] : pd \in PeriodInputs, l \in LimitInputs}

\* GET /api/user_by_token?token=..&code=..
UserByTokenRequests ==
    {[op |-> "user_by_token", method |-> "GET", code |-> None, qcode |-> qc, query |-> None,
      token |-> t] : qc \in OptStrings, t \in OptStrings}

\* history and favorites, lines 122-123 and 292-293
ReadCode(sess, r) == Strip(PyOr(PyOr(r.qcode, SessionGet(sess, "linked_code")), <<>>))

\* history and favorites: the code passes the two tests of lines 124-127
ReadCodeValid(sess, r) == Truthy(ReadCode(sess, r)) /\ IsDigit(ReadCode(sess, r))

\* a history that drops the session when the code is unknown
HistoryView_HealsSession(sess, r, dbres) ==
    LET code == ReadCode(sess, r)
    IN  IF ~Truthy(code)
        THEN ReadOutcome(sess, Response([error |-> "no linked code"], 400), NoQuery)
        ELSE IF ~IsDigit(code)
        THEN ReadOutcome(sess, Response([error |-> "invalid code"], 400), NoQuery)
        ELSE IF ~IntParses(code) \/ dbres = "lookup_error"
        THEN ReadOutcome(sess, Response([error |-> "history unavailable", detail |-> "exception"], 400), dbres)
        ELSE IF dbres = "not_found"
        THEN ReadOutcome(ClearLinked(sess), Response([error |-> "code not found"], 400), dbres)
        ELSE IF dbres = "query_error"
        THEN ReadOutcome(sess, RaisedDb, dbres)
        ELSE ReadOutcome(sess, Response([items |-> "rows"], 200), dbres)

\* history
HistoryView(sess, r, dbres) ==
    LET code == ReadCode(sess, r)
    IN  IF ~Truthy(code)
        THEN ReadOutcome(sess, Response([error |-> "no linked code"], 400), NoQuery)
        ELSE IF ~IsDigit(code)
        THEN ReadOutcome(sess, Response([error |-> "invalid code"], 400), NoQuery)
        ELSE IF ~IntParses(code) \/ dbres = "lookup_error"
        THEN ReadOutcome(sess, Response([error |-> "history unavailable", detail |-> "exception"], 400), dbres)
        ELSE IF dbres = "not_found"
        THEN ReadOutcome(sess, Response([error |-> "code not found"], 400), dbres)
        ELSE IF dbres = "query_error"
        THEN ReadOutcome(sess, RaisedDb, dbres)
        ELSE ReadOutcome(sess, Response([items |-> "rows"], 200), dbres)

\* favorites, line 298
FavoritesLimitRaw(r) == PyOr(r.limit, <<"5", "0", "0">>)

\* favorites
FavoritesView(sess, r, dbres) ==
    LET code == ReadCode(sess, r)
        raw  == FavoritesLimitRaw(r)
    IN  IF ~Truthy(code)
        THEN ReadOutcome(sess, Response([error |-> "no linked code"], 400), NoQuery)
        ELSE IF ~IsDigit(code)
        THEN ReadOutcome(sess, Response([error |-> "invalid code"], 400), NoQuery)
        ELSE IF ~IntParses(raw)
        THEN ReadOutcome(sess, Response([error |-> "invalid limit"], 400), NoQuery)
        ELSE IF ~IntParses(code) \/ dbres = "lookup_error"
        THEN ReadOutcome(sess, Response([error |-> "favorites unavailable", detail |-> "exception"], 400), dbres)
        ELSE IF dbres = "not_found"
        THEN ReadOutcome(sess, Response([error |-> "code not found"], 400), dbres)
        ELSE IF dbres = "query_error"
        THEN ReadOutcome(sess, RaisedDb, dbres)
        ELSE ReadOutcome(sess, Response([items |-> "rows",
                                         limit |-> Clamp(IntValue(raw), 1, 1000)], 200), dbres)

\* charts, line 228
ChartsPeriod(r) == Strip(Lower(PyOr(r.period, Week)))

\* charts, line 229
ChartsLimitRaw(r) == PyOr(r.limit, <<"2", "0">>)

\* a clamp that forgets the upper end
ChartsLimit_NoUpper(raw) == IF IntValue(raw) > 1 THEN IntValue(raw) ELSE 1

\* charts, line 231
ChartsLimit(raw) == Clamp(IntValue(raw), 1, 100)

\* charts, lines 235-240: the period names a window or all of the history
ChartsPeriodValid(period) == period \in {Week, Month, Year} \/ period \in {All, <<"*">>, <<>>}

\* the aggregate query of charts returns rows or raises
ChartQueries == {"rows", "query_error"}

\* charts
ChartsView(sess, r, dbres) ==
    LET period == ChartsPeriod(r)
        raw    == ChartsLimitRaw(r)
    IN  IF ~IntParses(raw)
        THEN ReadOutcome(sess, Response([error |-> "invalid limit"], 400), NoQuery)
        ELSE IF ~ChartsPeriodValid(period)
        THEN ReadOutcome(sess, Response([error |-> "invalid period"], 400), NoQuery)
        ELSE IF dbres = "query_error"
        THEN ReadOutcome(sess, RaisedDb, dbres)
        ELSE ReadOutcome(sess, Response([items |-> "rows", period |-> period,
                                         limit |-> ChartsLimit(raw)], 200), dbres)

\* get_user_by_token, lines 358-359
UserToken(r) == Strip(PyOr(PyOr(r.token, r.qcode), <<>>))

\* get_user_by_token
UserByTokenView(sess, r, dbres) ==
    LET token == UserToken(r)
    IN  IF ~Truthy(token)
        THEN ReadOutcome(sess, Response([error |-> "token required"], 400), NoQuery)
        ELSE IF ~IsDigit(token)
        THEN ReadOutcome(sess, Response([error |-> "invalid token"], 400), NoQuery)
        ELSE IF ~IntParses(token) \/ dbres = "lookup_error"
        THEN ReadOutcome(sess, Response([error |-> "lookup failed", detail |-> "exception"], 400), dbres)
        ELSE IF dbres = "not_found"
        THEN ReadOutcome(sess, Response([error |-> "user not found"], 404), dbres)
        ELSE ReadOutcome(sess, Response([user |-> "row"], 200), dbres)

\* no request has stored a linked_code that the session still holds
NoWrite == [code |-> None, sent |-> None, status |-> 0]

\* the two requests that may overlap
Procs == {1, 2}

\* a request that has not arrived
NewProc == [pc |-> "new", req |-> NoRequest, out |-> NoCall, local |-> EmptySession]

\* no overlapping requests are in flight
\* the normalizer is not being applied
NormIdle ==
    /\ nin = None
    /\ nout = None
    /\ npc = "idle"

ConcIdle ==
    /\ store = EmptySession
    /\ store0 = EmptySession
    /\ proc = [p \in Procs |-> NewProc]

SeqInit ==
    /\ session = EmptySession
    /\ pc = "idle"
    /\ req = NoRequest
    /\ bot = NoCall
    /\ calls = <<>>
    /\ resp = NoResponse
    /\ pre = EmptySession
    /\ prevCleared = FALSE
    /\ lastWrite = NoWrite
    /\ stale = FALSE
    /\ clearedSince = FALSE
    /\ db = NoQuery

Init == SeqInit /\ ConcIdle /\ NormIdle

\* the bot answers a view can see: one of _api_post's results when the view
\* reaches its call, none otherwise
Answers(reaches) == IF reaches THEN ApiPostResults ELSE {NoCall}

\* the request stored a linked_code: the stored value changed, or link or
\* send_song took its success branch (lines 84-87, 109-111)
Wrote(sess, r, o) ==
    /\ "linked_code" \in DOMAIN o.session
    /\ \/ SessionGet(o.session, "linked_code") # SessionGet(sess, "linked_code")
       \/ r.op \in {"link", "send"} /\ o.resp.status = 200

\* a logout heard from the bot that the code is gone (status 200 or an
\* already-unlinked error) and yet left a linked_code in the session
LeftStale(r, o) ==
    /\ r.op = "logout" /\ o.calls # <<>>
    /\ "linked_code" \in DOMAIN o.session
    /\ \/ o.bot.status = 200
       \/ o.bot.data.object /\ o.bot.data.has_error /\ o.bot.data.error \in UnlinkedErrors

Handle(r, o) ==
    /\ pc' = "done"
    /\ req' = r
    /\ pre' = session
    /\ session' = o.session
    /\ calls' = o.calls
    /\ bot' = o.bot
    /\ resp' = o.resp
    /\ lastWrite' = IF "linked_code" \notin DOMAIN o.session THEN NoWrite
                    ELSE IF Wrote(session, r, o)
                    THEN [code |-> o.session["linked_code"],
                          sent |-> IF o.calls = <<>> THEN None ELSE o.calls[1].code,
                          status |-> o.bot.status]
                    ELSE lastWrite
    /\ stale' = IF "linked_code" \notin DOMAIN o.session \/ Wrote(session, r, o) THEN FALSE
                ELSE IF LeftStale(r, o) THEN TRUE
                ELSE stale
    /\ db' = IF "db" \in DOMAIN o THEN o.db ELSE NoQuery
    /\ UNCHANGED <<prevCleared, clearedSince>>
    /\ UNCHANGED <<concVars, normVars>>

Link ==
    /\ pc = "idle"
    /\ \E r \in LinkRequests :
         \E out \in Answers(Truthy(LinkCode(r))) :
            Handle(r, LinkView(session, r, out))

SendSong ==
    /\ pc = "idle"
    /\ \E r \in SendRequests :
         \E out \in Answers(Truthy(SendQuery(r)) /\ Truthy(SendCode(session, r))) :
            Handle(r, SendView(session, r, out))

Logout ==
    /\ pc = "idle"
    /\ \E r \in LogoutRequests :
         \E out \in Answers(Truthy(LogoutCode(session, r))) :
            Handle(r, LogoutView(session, r, out))

\* the query results a view can see: one of results when the view reaches
\* its query, none otherwise
QueryResults(reaches, results) == IF reaches THEN results ELSE {NoQuery}

History ==
    /\ pc = "idle"
    /\ \E r \in HistoryRequests :
         \E dbres \in QueryResults(ReadCodeValid(session, r), UserLookups) :
            Handle(r, HistoryView(session, r, dbres))

Favorites ==
    /\ pc = "idle"
    /\ \E r \in FavoritesRequests :
         \E dbres \in QueryResults(ReadCodeValid(session, r) /\ IntParses(FavoritesLimitRaw(r)),
                                   UserLookups) :
            Handle(r, FavoritesView(session, r, dbres))

Charts ==
    /\ pc = "idle"
    /\ \E r \in ChartsRequests :
         \E dbres \in QueryResults(IntParses(ChartsLimitRaw(r))
                                       /\ ChartsPeriodValid(ChartsPeriod(r)), ChartQueries) :
            Handle(r, ChartsView(session, r, dbres))

UserByToken ==
    /\ pc = "idle"
    /\ \E r \in UserByTokenRequests :
         \E dbres \in QueryResults(Truthy(UserToken(r)) /\ IsDigit(UserToken(r)),
                                   UserLookups \ {"query_error"}) :
            Handle(r, UserByTokenView(session, r, dbres))

\* the response is sent and SessionMiddleware stores the session; the next
\* request of this browser session starts from the stored session
NextRequest ==
    /\ pc = "done"
    /\ pc' = "idle"
    /\ prevCleared' = (req.op = "logout" /\ resp.status = 200)
    /\ req' = NoRequest
    /\ bot' = NoCall
    /\ calls' = <<>>
    /\ resp' = NoResponse
    /\ pre' = session
    /\ clearedSince' = IF req.op = "logout" /\ resp.status = 200 THEN TRUE
                       ELSE IF Wrote(pre, req, [session |-> session, resp |-> resp]) THEN FALSE
                       ELSE clearedSince
    /\ db' = NoQuery
    /\ UNCHANGED <<session, lastWrite, stale>>
    /\ UNCHANGED <<concVars, normVars>>

Next ==
    \/ Link \/ SendSong \/ Logout
    \/ History \/ Favorites \/ Charts \/ UserByToken
    \/ NextRequest

Spec == Init /\ [][Next]_vars

\* ------------------------------------------------- overlapping requests
\* the codes the overlapping requests carry
ConcCodes == {None, <<"1">>, <<"1", "1">>}

\* the sessions a link or a send may have stored before the two requests
ConcSessions ==
    {EmptySession}
    \cup {SetLinked(EmptySession, c) : c \in ConcCodes \ {None}}
    \cup {SessionSet(EmptySession, "linked_code", c) : c \in ConcCodes \ {None}}

\* link, send and logout requests with a body code and no query-string code
ConcRequests ==
    {r \in LinkRequests \cup SendRequests \cup LogoutRequests :
        /\ r.code \in ConcCodes /\ r.qcode = None
        /\ r.op = "send" => r.query = <<"a", " ">>
        /\ r.op = "logout" => r.method = "POST"}

\* what the bot answers a request's call: success, 401, an already-unlinked
\* error, or no answer at all
ConcAnswers ==
    {a \in ApiPostResults :
        \/ a.raised
        \/ a.status \in {200, 401} /\ a.data = ObjNoError
        \/ a.status = 400 /\ a.data = ObjError("code not found")}

\* the view the URL of the request is routed to
View(sess, r, out) ==
    CASE r.op = "link"   -> LinkView(sess, r, out)
      [] r.op = "send"   -> SendView(sess, r, out)
      [] r.op = "logout" -> LogoutView(sess, r, out)

\* SessionBase.modified after the view: a key was set (the success branch of
\* link and send_song) or a key that was present was popped
Modified(sess, r, o) ==
    o.session # sess \/ (r.op \in {"link", "send"} /\ o.resp.status = 200)

InitConc ==
    /\ SeqInit
    /\ NormIdle
    /\ store \in ConcSessions
    /\ store0 = store
    /\ proc = [p \in Procs |-> NewProc]

\* a request arrives: SessionAuthentication reads request.session before the
\* view body runs, which loads the stored session into this request
Begin(p) ==
    /\ proc[p].pc = "new"
    /\ \E r \in ConcRequests, out \in ConcAnswers :
         proc' = [proc EXCEPT ![p] = [pc |-> "loaded", req |-> r, out |-> out, local |-> store]]
    /\ UNCHANGED <<store, store0>>
    /\ UNCHANGED <<seqVars, normVars>>

\* the view runs on the session this request loaded, and SessionMiddleware
\* saves that session, whole, when the view modified it
Finish(p) ==
    /\ proc[p].pc = "loaded"
    /\ LET o == View(proc[p].local, proc[p].req, proc[p].out)
       IN  /\ store' = IF Modified(proc[p].local, proc[p].req, o) THEN o.session ELSE store
           /\ proc' = [proc EXCEPT ![p].pc = "saved", ![p].local = o.session]
    /\ UNCHANGED store0
    /\ UNCHANGED <<seqVars, normVars>>

NextConc == \E p \in Procs : Begin(p) \/ Finish(p)

SpecConc == InitConc /\ [][NextConc]_vars

\* the stored session after request a, then request b, each run to its end
Serial(sess, a, b) ==
    View(View(sess, a.req, a.out).session, b.req, b.out).session

\* ---------------------------------------------------------- normalizer
\* utils.normalize_code
normalize_code(code) ==
    LET c == Strip(PyOr(code, <<>>))
    IN  IF IsDigit(c) THEN c ELSE <<>>

\* the characters of the normalizer's inputs
NormChars == Chars \cup {SuperscriptTwo}

\* the normalizer's inputs: None or a string
NormInputs == StringsOver(NormChars, MaxNormLen) \cup {None}

InitNorm ==
    /\ SeqInit
    /\ ConcIdle
    /\ nin \in NormInputs
    /\ nout = None
    /\ npc = "input"

Normalize ==
    /\ npc = "input"
    /\ nout' = normalize_code(nin)
    /\ npc' = "output"
    /\ UNCHANGED nin
    /\ UNCHANGED <<seqVars, concVars>>

NextNorm == Normalize

SpecNorm == InitNorm /\ [][NextNorm]_vars

\* ------------------------------------------------------- shared vocabulary
\* a view has answered the request recorded in req
Answered(op) == pc = "done" /\ req.op = op

\* neither of the two session fields is present
Cleared(sess) == "linked" \notin DOMAIN sess /\ "linked_code" \notin DOMAIN sess

\* the code a logout request supplies: the body's code, else the query string's
Supplied(r) == IF r.method = "GET" THEN r.qcode ELSE PyOr(r.code, r.qcode)

\* the code a logout request resolves to: the supplied one, else the session's
Resolved(r, sess) == Strip(PyOr(PyOr(Supplied(r), SessionGet(sess, "linked_code")), <<>>))

\* the bot answered with one of the already-unlinked errors
SaysUnlinked == bot.data.object /\ bot.data.has_error /\ bot.data.error \in UnlinkedErrors

NotLinked == Response([status |-> "not_linked"], 200)

LoggedOut == Response([status |-> "logged_out"], 200)

C3_Original ==
    (Answered("logout") /\ calls # <<>> /\ SaysUnlinked)
        => (Cleared(session) /\ resp = NotLinked)

\* C3, amended: a logout that reaches the bot and gets an already-unlinked
\* error has both session fields removed whatever the HTTP status, and
\* answers 200 not_linked when the status is not 200, 200 logged_out when it is.
C3_LogoutUnlinkedError ==
    (Answered("logout") /\ calls # <<>> /\ SaysUnlinked)
        => /\ Cleared(session)
           /\ resp = IF bot.status = 200 THEN LoggedOut ELSE NotLinked

C3_Witness ==
    /\ Answered("logout") /\ bot.status = 401 /\ bot.data = ObjError("code not found")
    /\ "linked_code" \in DOMAIN pre /\ Cleared(session) /\ resp = NotLinked

\* C4: a logout whose resolved code (supplied, else the session's; trimmed)
\* is empty or not digit-only makes no bot call, removes both session fields
\* and answers 200 not_linked.
C4_LogoutNoCode ==
    (Answered("logout") /\ ~IsDigit(Resolved(req, pre)))
        => (calls = <<>> /\ Cleared(session) /\ resp = NotLinked)

C4_Witness ==
    /\ Answered("logout") /\ Resolved(req, pre) = <<"1", "a">>
    /\ "linked_code" \in DOMAIN pre /\ pre["linked_code"] = <<"1">>
    /\ calls = <<>> /\ Cleared(session) /\ resp = NotLinked

\* C5: a logout with a digit-only resolved code whose bot call returns 200
\* removes both session fields and answers 200 logged_out.
C5_Logout200 ==
    (Answered("logout") /\ IsDigit(Resolved(req, pre)) /\ bot.status = 200)
        => (Cleared(session) /\ resp = LoggedOut)

C5_Witness ==
    /\ Answered("logout") /\ bot.status = 200 /\ Supplied(req) = None
    /\ "linked" \in DOMAIN pre /\ "linked_code" \in DOMAIN pre
    /\ Cleared(session) /\ resp = LoggedOut

\* C6 as stated: a logout whose bot call returns a status that is not 200,
\* not 401 and not 5xx, with an error that is not an already-unlinked one,
\* answers 400 with the bot's error detail and leaves the session as it was.
C6_Original ==
    (Answered("logout") /\ calls # <<>> /\ bot.status \notin {200, 401}
                        /\ ~(bot.status >= 500 /\ bot.status <= 599) /\ ~SaysUnlinked)
        => (resp.status = 400 /\ session = pre)

\* C7: after a logout that cleared the session, the next request, when it is
\* a logout that supplies no code, answers 200 not_linked, makes no bot call
\* and leaves the session cleared.
C7_LogoutIdempotent ==
    (Answered("logout") /\ prevCleared /\ req.code = None /\ req.qcode = None)
        => (resp = NotLinked /\ calls = <<>> /\ Cleared(session))

C7_Witness ==
    /\ Answered("logout") /\ prevCleared /\ req.code = None /\ req.qcode = None
    /\ resp = NotLinked /\ calls = <<>> /\ Cleared(session)

\* C8: a link with a digit-only code c whose bot call returns 200 leaves the
\* session holding exactly linked = true and linked_code = c, and answers
\* 200 {status: linked, code: c}, whatever the session held before.
C8_Link200 ==
    (Answered("link") /\ req.code # None /\ IsDigit(Strip(req.code)) /\ bot.status = 200)
        => /\ DOMAIN session = {"linked", "linked_code"}
           /\ session["linked"] = TRUE
           /\ session["linked_code"] = Strip(req.code)
           /\ resp = Response([status |-> "linked", code |-> Strip(req.code)], 200)

C8_Witness ==
    /\ Answered("link") /\ req.code = <<"1">> /\ bot.status = 200
    /\ "linked_code" \in DOMAIN pre /\ pre["linked_code"] = <<"1", "1">>
    /\ session["linked_code"] = <<"1">> /\ session["linked"] = TRUE

\* C9: a link whose code is missing or blank answers 400 "code required",
\* makes no bot call and leaves the session as it was.
C9_LinkBlank ==
    (Answered("link") /\ (req.code = None \/ Strip(req.code) = <<>>))
        => /\ resp = Response([error |-> "code required"], 400)
           /\ calls = <<>>
           /\ session = pre

C9_Witness ==
    /\ Answered("link") /\ req.code = <<" ">> /\ "linked_code" \in DOMAIN pre
    /\ resp = Response([error |-> "code required"], 400) /\ calls = <<>> /\ session = pre

\* C10 as stated: a link whose non-blank code contains a non-digit character
\* answers 400 "invalid code" and makes no bot call.
C10_Original ==
    (Answered("link") /\ req.code # None /\ Strip(req.code) # <<>> /\ ~IsDigit(Strip(req.code)))
        => (resp = Response([error |-> "invalid code"], 400) /\ calls = <<>>)

\* a link or send request was rejected before its bot call
RejectedLocally == calls = <<>>

\* C11: a link or send that is rejected locally, or whose bot call returns a
\* status other than 200, leaves the session's fields as they were.
C11_WriteOnlyOnSuccess ==
    ((Answered("link") \/ Answered("send")) /\ (RejectedLocally \/ bot.status # 200))
        => session = pre

C11_Witness ==
    /\ Answered("send") /\ calls # <<>> /\ bot.status = 400
    /\ req.code = <<"1", "1">> /\ "linked_code" \in DOMAIN pre /\ pre["linked_code"] = <<"1">>
    /\ session = pre

\* C12 as stated: a link or send whose bot call returns 401 answers 502.
C12_Original ==
    ((Answered("link") \/ Answered("send")) /\ calls # <<>> /\ bot.status = 401)
        => resp.status = 502

\* C13: a send whose query is missing or blank after trimming answers 400
\* "query required" and makes no bot call, whatever code is supplied or stored.
C13_SendBlankQuery ==
    (Answered("send") /\ (req.query = None \/ Strip(req.query) = <<>>))
        => (resp = Response([error |-> "query required"], 400) /\ calls = <<>>)

C13_Witness ==
    /\ Answered("send") /\ req.query = <<" ">> /\ req.code = <<"1">>
    /\ "linked_code" \in DOMAIN pre
    /\ resp = Response([error |-> "query required"], 400) /\ calls = <<>>

\* the code a send request resolves to: the body's code, else the session's
SendResolved(r, sess) == PyOr(PyOr(r.code, SessionGet(sess, "linked_code")), <<>>)

\* C14 as stated: a send with a non-blank query whose resolved code is absent,
\* blank or holds a non-digit character answers 400 "no linked code (link
\* first)" and makes no bot call.
C14_Original ==
    (Answered("send") /\ req.query # None /\ Strip(req.query) # <<>>
                      /\ ~IsDigit(Strip(SendResolved(req, pre))))
        => (resp = Response([error |-> "no linked code (link first)"], 400) /\ calls = <<>>)

\* C15 as stated: a send whose bot call returns 200 answers 200 scheduled and
\* leaves the session's linked_code equal to its value before the request.
C15_Original ==
    (Answered("send") /\ bot.status = 200)
        => /\ resp = Response([status |-> "scheduled"], 200)
           /\ SessionGet(session, "linked_code") = SessionGet(pre, "linked_code")

\* C15, amended: a send whose bot call returns 200 answers 200 scheduled and
\* stores the code it sent as the session's linked_code; when the body
\* supplies no code that is the stored code, and the session is as it was.
C15_SendStoresSentCode ==
    (Answered("send") /\ bot.status = 200)
        => /\ resp = Response([status |-> "scheduled"], 200)
           /\ Len(calls) = 1
           /\ SessionGet(session, "linked_code") = calls[1].code
           /\ ~Truthy(req.code) => session = pre

C15_Witness ==
    /\ Answered("send") /\ bot.status = 200 /\ req.code = <<"1", "1">>
    /\ "linked_code" \in DOMAIN pre /\ pre["linked_code"] = <<"1">>
    /\ session["linked_code"] = <<"1", "1">>

\* C17: every link, send or logout request makes at most one call to the
\* bot, whatever the outcome.
C17_AtMostOneCall ==
    pc = "done" => Len(calls) <= 1

C17_Witness ==
    /\ Answered("logout") /\ Len(calls) = 1 /\ bot.status = 400 /\ bot.data = ObjNoError
    /\ resp.status = 400

\* C18 as stated: whatever the bot's outcome, link, send and logout end with
\* a response of status 200, 400 or 502 and never raise.
C18_Original ==
    pc = "done" => (resp.status \in {200, 400, 502} /\ resp # Raised)

\* C16: whenever the session holds a linked_code c, the most recent request
\* that stored it sent c to the bot and got status 200, and no logout since
\* then got status 200 or an already-unlinked error and left c in the session.
C16_LinkedCodeAccepted ==
    "linked_code" \in DOMAIN session
        => /\ lastWrite.code = session["linked_code"]
           /\ lastWrite.sent = session["linked_code"]
           /\ lastWrite.status = 200
           /\ ~stale

C16_Witness ==
    /\ Answered("logout") /\ calls # <<>> /\ bot.status = 401 /\ bot.data = ObjNoError
    /\ "linked_code" \in DOMAIN session /\ session["linked_code"] = <<"1">>
    /\ lastWrite.sent = <<"1">> /\ lastWrite.status = 200 /\ ~stale

\* C19 as stated: when two requests of one browser session overlap, the
\* stored session after both have finished is the one that running the two
\* requests one after the other, in one of the two orders, leaves.
C19_Original ==
    (\A p \in Procs : proc[p].pc = "saved")
        => store \in {Serial(store0, proc[1], proc[2]), Serial(store0, proc[2], proc[1])}

\* the input without its leading and trailing whitespace
Trimmed(v) == Strip(PyOr(v, <<>>))

\* C20 as stated: the normalizer returns the trimmed input when that is
\* non-empty and made of decimal digits only, and the empty string otherwise.
C20_Original ==
    npc = "output"
        => nout = IF Trimmed(nin) # <<>> /\ \A i \in 1..Len(Trimmed(nin)) : Trimmed(nin)[i] \in Digits
                  THEN Trimmed(nin)
                  ELSE <<>>

\* a non-empty string of decimal digits
IsDecimalString(v) == v # None /\ v # <<>> /\ \A i \in 1..Len(v) : v[i] \in Digits

\* the 400 that charts and favorites give a limit they cannot read
InvalidLimit == Response([error |-> "invalid limit"], 400)

\* the read-only operations
ReadOps == {"history", "favorites", "charts", "user_by_token"}

\* C21: in charts a limit that parses as an integer is never answered with
\* "invalid limit"; whenever charts answers 200 it reports the limit clamped
\* into 1..100 (above 100 gives 100, below 1 gives 1), and it answers 200
\* whenever its query returns rows; an absent limit is reported as 20; and
\* 400 "invalid limit" is the answer exactly to a limit that is given and is
\* not an integer.
C21_ChartsLimitClamped ==
    Answered("charts") =>
        LET given == Truthy(req.limit)
            v     == IntValue(req.limit)
        IN  /\ (given /\ IntParses(req.limit)) =>
                  /\ resp # InvalidLimit
                  /\ db = "rows" => resp.status = 200
                  /\ resp.status = 200 =>
                        resp.body.limit = IF v > 100 THEN 100 ELSE IF v < 1 THEN 1 ELSE v
            /\ ~given =>
                  /\ resp # InvalidLimit
                  /\ db = "rows" => resp.status = 200
                  /\ resp.status = 200 => resp.body.limit = 20
            /\ resp = InvalidLimit <=> (given /\ ~IntParses(req.limit))

\* charts answered 200 to limit=111 and reported 100
C21_Witness ==
    /\ Answered("charts")
    /\ req.limit = <<"1", "1", "1">>
    /\ resp.status = 200
    /\ resp.body.limit = 100

\* C22: history, favorites, charts and user_by_token make no bot call and
\* leave the session as it was before the request, on every path.
C22_ReadOnly ==
    (pc = "done" /\ req.op \in ReadOps)
        => /\ calls = <<>>
           /\ bot = NoCall
           /\ session = pre

\* history took its code from the session, found no user for it and left
\* the session linked
C22_Witness ==
    /\ Answered("history")
    /\ req.qcode = None
    /\ "linked_code" \in DOMAIN pre
    /\ db = "not_found"
    /\ resp = Response([error |-> "code not found"], 400)
    /\ session = pre

\* C23 as stated: in every reachable state the session's linked_code, when
\* present, is a non-empty digit-only string.
C23_Original ==
    "linked_code" \in DOMAIN session => IsDecimalString(session["linked_code"])

\* C24 as stated: in every reachable state linked is true exactly when
\* linked_code is present.
C24_Original ==
    ("linked" \in DOMAIN session /\ session["linked"] = TRUE)
        <=> "linked_code" \in DOMAIN session

\* C25 as stated: after a logout that cleared the session and until a request
\* stores a code, every send without a body code answers 400 "no linked code
\* (link first)" and makes no bot call.
C25_Original ==
    (Answered("send") /\ clearedSince /\ req.code = None)
        => (resp = Response([error |-> "no linked code (link first)"], 400) /\ calls = <<>>)

\* C25, amended: after a logout that cleared the session and until a request
\* stores a code, every send without a body code makes no bot call and
\* answers 400: "query required" when its query is blank, "no linked code
\* (link first)" otherwise.
C25_NoDefaultAfterLogout ==
    (Answered("send") /\ clearedSince /\ req.code = None)
        => /\ calls = <<>>
           /\ session = pre
           /\ resp = IF req.query = None \/ Strip(req.query) = <<>>
                     THEN Response([error |-> "query required"], 400)
                     ELSE Response([error |-> "no linked code (link first)"], 400)

C25_Witness ==
    /\ Answered("send") /\ clearedSince /\ ~prevCleared
    /\ req.code = None /\ req.query = <<"a", " ">>
    /\ resp = Response([error |-> "no linked code (link first)"], 400) /\ calls = <<>>

====
